---- MODULE Spec2Model ----
(***************************************************************************)
(* A model of the LRU cache of src/cache/lru.go: the recency list, the     *)
(* key index, the size accounting and the gob save/load of its items.      *)
(*                                                                         *)
(* The cache is the record [list, table, size, capacity, panic]:           *)
(*   list     the container/list, front (index 1) to back, of entries      *)
(*            [key, value, size, timeAccessed];                            *)
(*   table    the keys of the map; table[key] is the list element that     *)
(*            holds the entry of that key;                                 *)
(*   size     the uint64 running total, capacity the uint64 ceiling;       *)
(*   panic    TRUE once checkCapacity has dereferenced the nil Back() of   *)
(*            an empty list.                                               *)
(* The operations are operators on that record; the actions apply them to  *)
(* the variables.                                                          *)
(***************************************************************************)
EXTENDS Integers, Sequences, FiniteSets, TLC

\* ------------------------------------------------------------------ bounds

\* Largest Size() of a value a caller stores.
MaxValSize == 2
\* Largest capacity a caller configures.
MaxCapacity == 2
\* Last reading of the clock; time.Now() stays there once it is reached.
MaxClock == 2
\* Longest item slice a load stream decodes to.
MaxItems == 2
\* uint64 arithmetic wraps; the model keeps the wraparound with a narrower word.
WordBits == 16

Word == 2 ^ WordBits

Keys == {"A", "B", "C"}
\* A Value is a payload (its tag) that reports a size: one payload of every
\* size, and a second payload of size 1.
Values == ({"x"} \X (0 .. MaxValSize)) \cup {<<"y", 1>>}
NoValue == <<"nil", 0>>
\* time.Time{}: the zero time, before every reading of the clock.
ZeroTime == 0

VARIABLES
    list,       \* lru.list, front first
    table,      \* the keys of lru.table
    size,       \* lru.size
    capacity,   \* lru.capacity
    panicked,   \* a nil dereference in checkCapacity has ended the program
    clock,      \* the last reading of time.Now()
    loadLeft,   \* LoadItems holds the lock with this many decoded items to apply
    last,       \* the last public call: its name, whether its key was present
                \* (Delete: its result) and the value Get returned, the
                \* record Stats returned or the value a turn of a load applied
    order,      \* history: the keys in the cache and those the last call
                \* evicted, by last insert or touch, latest first
    evicted,    \* history: the keys the last call evicted
    restored,   \* the second cache of a save/load round trip
    mu,         \* lru.mu: the thread that holds it, or NoThread
    thr,        \* per thread: where it is in its call, the call's arguments,
                \* what it has got back (val) and what a sequential run of the
                \* calls in the order of Lock() would give it (want)
    lin         \* history: the cache of that sequential run

vars == <<list, table, size, capacity, panicked, clock, loadLeft, last,
          order, evicted, restored, mu, thr, lin>>

\* ------------------------------------------------------- values and words

Size(value) == value[2]

UnitValues == {value \in Values : Size(value) = 1}

\* uint64(i) of an int, negative ones included.
ToU64(i) == i % Word

U64Add(a, b) == (a + b) % Word

U64Sub(a, b) == (a - b) % Word

\* --------------------------------------------------------- container/list

\* The position of table[key] in the list, 0 when the element is in no list.
IndexOf(l, key) ==
    IF \E i \in 1 .. Len(l) : l[i].key = key
    THEN CHOOSE i \in 1 .. Len(l) : l[i].key = key
    ELSE 0

ListRemove(l, i) ==
    IF i = 0 THEN l ELSE SubSeq(l, 1, i - 1) \o SubSeq(l, i + 1, Len(l))

ListMoveToFront(l, i) ==
    IF i = 0 THEN l ELSE <<l[i]>> \o ListRemove(l, i)

ListPushFront(l, e) == <<e>> \o l

\* ------------------------------------------------------------ the cache

NewLRUCache(cap) ==
    [list |-> <<>>, table |-> {}, size |-> 0, capacity |-> cap, panic |-> FALSE]

checkCapacityNoLoop(c) ==
    c

checkCapacityAtLeast(c) ==
    LET RECURSIVE loop(_)
        loop(d) ==
            IF d.size >= d.capacity
            THEN IF d.list = <<>>
                 THEN [d EXCEPT !.panic = TRUE]
                 ELSE LET delValue == d.list[Len(d.list)]
                      IN  loop([d EXCEPT
                                  !.list = SubSeq(d.list, 1, Len(d.list) - 1),
                                  !.table = @ \ {delValue.key},
                                  !.size = U64Sub(@, ToU64(delValue.size))])
            ELSE d
    IN  loop(c)

checkCapacityKeepOne(c) ==
    LET RECURSIVE loop(_)
        loop(d) ==
            IF d.size > d.capacity /\ Len(d.list) > 1
            THEN LET delValue == d.list[Len(d.list)]
                 IN  loop([d EXCEPT
                             !.list = SubSeq(d.list, 1, Len(d.list) - 1),
                             !.table = @ \ {delValue.key},
                             !.size = U64Sub(@, ToU64(delValue.size))])
            ELSE d
    IN  loop(c)

evictBackKeepsElement(d) ==
    IF d.list = <<>>
    THEN [d EXCEPT !.panic = TRUE]
    ELSE LET delValue == d.list[Len(d.list)]
         IN  [d EXCEPT !.table = @ \ {delValue.key},
                       !.size = U64Sub(@, ToU64(delValue.size))]

\* One turn of the loop of checkCapacity: remove list.Back(), its index entry,
\* its size. Back() of an empty list is nil, and delElem.Value then panics.
evictBack(d) ==
    IF d.list = <<>>
    THEN [d EXCEPT !.panic = TRUE]
    ELSE LET delValue == d.list[Len(d.list)]
         IN  [d EXCEPT !.list = SubSeq(d.list, 1, Len(d.list) - 1),
                       !.table = @ \ {delValue.key},
                       !.size = U64Sub(@, ToU64(delValue.size))]

\* for lru.size > lru.capacity: remove list.Back(), its index entry, its size.
\* Back() of an empty list is nil, and delElem.Value then panics.
checkCapacity(c) ==
    LET RECURSIVE loop(_)
        loop(d) ==
            IF d.size > d.capacity
            THEN IF d.list = <<>>
                 THEN [d EXCEPT !.panic = TRUE]
                 ELSE LET delValue == d.list[Len(d.list)]
                      IN  loop([d EXCEPT
                                  !.list = SubSeq(d.list, 1, Len(d.list) - 1),
                                  !.table = @ \ {delValue.key},
                                  !.size = U64Sub(@, ToU64(delValue.size))])
            ELSE d
    IN  loop(c)

moveToFrontStampOnly(c, key, t) ==
    LET i == IndexOf(c.list, key)
    IN  IF i = 0 THEN c
        ELSE [c EXCEPT !.list = [@ EXCEPT ![i].timeAccessed = t]]

\* list.MoveToFront(element); element.timeAccessed = time.Now()
moveToFront(c, key, t) ==
    LET i == IndexOf(c.list, key)
    IN  IF i = 0 THEN c
        ELSE [c EXCEPT !.list =
                 ListMoveToFront([@ EXCEPT ![i].timeAccessed = t], i)]

addNewNoAccount(c, key, value, t) ==
    LET newEntry == [key |-> key, value |-> value, size |-> Size(value),
                     timeAccessed |-> t]
    IN  checkCapacity([c EXCEPT !.list = ListPushFront(@, newEntry),
                                !.table = @ \cup {key}])

\* addNew up to its call of checkCapacity.
pushNew(c, key, value, t) ==
    LET newEntry == [key |-> key, value |-> value, size |-> Size(value),
                     timeAccessed |-> t]
    IN  [c EXCEPT !.list = ListPushFront(@, newEntry),
                  !.table = @ \cup {key},
                  !.size = U64Add(@, ToU64(newEntry.size))]

addNew(c, key, value, t) ==
    LET newEntry == [key |-> key, value |-> value, size |-> Size(value),
                     timeAccessed |-> t]
    IN  checkCapacity([c EXCEPT !.list = ListPushFront(@, newEntry),
                                !.table = @ \cup {key},
                                !.size = U64Add(@, ToU64(newEntry.size))])

updateInplaceAddsSize(c, key, value, t) ==
    LET i == IndexOf(c.list, key)
        valueSize == Size(value)
        d == [c EXCEPT !.list = [@ EXCEPT ![i].value = value,
                                          ![i].size = valueSize],
                       !.size = U64Add(@, ToU64(valueSize))]
    IN  checkCapacity(moveToFront(d, key, t))

\* updateInplace up to its call of checkCapacity.
replaceValue(c, key, value, t) ==
    LET i == IndexOf(c.list, key)
        valueSize == Size(value)
        sizeDiff == valueSize - c.list[i].size
        d == [c EXCEPT !.list = [@ EXCEPT ![i].value = value,
                                          ![i].size = valueSize],
                       !.size = U64Add(@, ToU64(sizeDiff))]
    IN  moveToFront(d, key, t)

updateInplace(c, key, value, t) ==
    LET i == IndexOf(c.list, key)
        valueSize == Size(value)
        sizeDiff == valueSize - c.list[i].size
        d == [c EXCEPT !.list = [@ EXCEPT ![i].value = value,
                                          ![i].size = valueSize],
                       !.size = U64Add(@, ToU64(sizeDiff))]
    IN  checkCapacity(moveToFront(d, key, t))

GetNoPromote(c, key, t) ==
    IF key \notin c.table
    THEN [cache |-> c, v |-> NoValue, ok |-> FALSE]
    ELSE [cache |-> c, v |-> c.list[IndexOf(c.list, key)].value, ok |-> TRUE]

\* Each public operation gives the cache after it and what it returns.
Get(c, key, t) ==
    IF key \notin c.table
    THEN [cache |-> c, v |-> NoValue, ok |-> FALSE]
    ELSE LET d == moveToFront(c, key, t)
         IN  [cache |-> d, v |-> d.list[IndexOf(d.list, key)].value, ok |-> TRUE]

SetReplaces(c, key, value, t) ==
    IF key \in c.table THEN updateInplace(c, key, value, t)
    ELSE addNew(c, key, value, t)

Set(c, key, value, t) ==
    IF key \in c.table THEN moveToFront(c, key, t)
    ELSE addNew(c, key, value, t)

SetIfAbsentTouches(c, key, value, t) ==
    IF key \notin c.table THEN addNew(c, key, value, t)
    ELSE moveToFront(c, key, t)

SetIfAbsent(c, key, value, t) ==
    IF key \notin c.table THEN addNew(c, key, value, t) ELSE c

DeleteAlwaysTrue(c, key) ==
    IF key \notin c.table
    THEN [cache |-> c, ok |-> TRUE]
    ELSE LET i == IndexOf(c.list, key)
         IN  [cache |-> [c EXCEPT !.list = ListRemove(@, i),
                                  !.table = @ \ {key},
                                  !.size = U64Sub(@, ToU64(c.list[i].size))],
              ok |-> TRUE]

Delete(c, key) ==
    IF key \notin c.table
    THEN [cache |-> c, ok |-> FALSE]
    ELSE LET i == IndexOf(c.list, key)
         IN  [cache |-> [c EXCEPT !.list = ListRemove(@, i),
                                  !.table = @ \ {key},
                                  !.size = U64Sub(@, ToU64(c.list[i].size))],
              ok |-> TRUE]

ClearKeepsSize(c) ==
    [c EXCEPT !.list = <<>>, !.table = {}]

Clear(c) ==
    [c EXCEPT !.list = <<>>, !.table = {}, !.size = 0]

SetCapacity(c, cap) ==
    checkCapacity([c EXCEPT !.capacity = cap])

StatsOfFront(c) ==
    [length |-> Len(c.list), size |-> c.size, capacity |-> c.capacity,
     oldest |-> IF c.list = <<>> THEN ZeroTime
                ELSE c.list[1].timeAccessed]

\* Stats(): the length, the size, the capacity and the back entry's last access.
Stats(c) ==
    [length |-> Len(c.list), size |-> c.size, capacity |-> c.capacity,
     oldest |-> IF c.list = <<>> THEN ZeroTime
                ELSE c.list[Len(c.list)].timeAccessed]

KeysBackToFront(c) == [i \in 1 .. Len(c.list) |-> c.list[Len(c.list) + 1 - i].key]

\* Keys(): the keys front to back.
KeysOf(c) == [i \in 1 .. Len(c.list) |-> c.list[i].key]

ItemsFromSecond(c) ==
    [i \in 1 .. (IF c.list = <<>> THEN 0 ELSE Len(c.list) - 1) |->
        [Key |-> c.list[i + 1].key, Value |-> c.list[i + 1].value]]

\* Items(): the Item{Key, Value} pairs front to back.
Items(c) ==
    [i \in 1 .. Len(c.list) |-> [Key |-> c.list[i].key, Value |-> c.list[i].value]]

\* ------------------------------------------------------------ persistence

\* gob writes the slice as its length, then per Item the key, the name of the
\* value's registered concrete type and the value's fields.
gobEncode(items) ==
    <<Len(items)>> \o
    [j \in 1 .. 3 * Len(items) |->
        LET it == items[(j + 2) \div 3]
        IN  CASE j % 3 = 1 -> it.Key
              [] j % 3 = 2 -> it.Value[1]
              [] OTHER     -> it.Value[2]]

\* gob reads the length and rebuilds each Item from its three fields.
gobDecode(stream) ==
    [i \in 1 .. stream[1] |->
        [Key |-> stream[3 * i - 1],
         Value |-> <<stream[3 * i], stream[3 * i + 1]>>]]

\* The body of the loop of LoadItems, for one item.
LoadItem(c, item, t) ==
    IF item.Key \in c.table
    THEN updateInplace(c, item.Key, item.Value, t)
    ELSE addNew(c, item.Key, item.Value, t)

LoadItemsLoopBackwards(c, items, t) ==
    LET RECURSIVE loop(_, _)
        loop(d, i) ==
            IF i < 1 \/ d.panic THEN d
            ELSE loop(LoadItem(d, items[i], t), i - 1)
    IN  loop(c, Len(items))

\* The loop of LoadItems over the decoded items, all read at one clock reading.
LoadItemsLoop(c, items, t) ==
    LET RECURSIVE loop(_, _)
        loop(d, i) ==
            IF i > Len(items) \/ d.panic THEN d
            ELSE loop(LoadItem(d, items[i], t), i + 1)
    IN  loop(c, 1)

\* What the decoder has rebuilt of a stream when it meets its end: the items
\* whose three fields are all there.
gobDecodePrefix(stream) ==
    IF stream = <<>> THEN <<>>
    ELSE LET whole == (Len(stream) - 1) \div 3
             n == IF stream[1] < whole THEN stream[1] ELSE whole
         IN  [i \in 1 .. n |->
                 [Key |-> stream[3 * i - 1],
                  Value |-> <<stream[3 * i], stream[3 * i + 1]>>]]

\* Decode returns an error unless the stream holds the length and every field
\* of every item.
gobDecodeFails(stream) ==
    \/ stream = <<>>
    \/ Len(stream) # 1 + 3 * stream[1]

\* A stream that lost its last field.
Truncated(stream) == SubSeq(stream, 1, Len(stream) - 1)

SaveItemsEncodeLive(snapshot, c) == gobEncode(Items(c))

\* SaveItems: Encode the slice that Items() returned; the cache is not read.
SaveItemsEncode(snapshot, c) == gobEncode(snapshot)

LoadItemsAppliesPrefix(c, stream, t) ==
    IF gobDecodeFails(stream)
    THEN [cache |-> LoadItemsLoop(c, gobDecodePrefix(stream), t), err |-> TRUE]
    ELSE [cache |-> LoadItemsLoop(c, gobDecode(stream), t), err |-> FALSE]

\* LoadItems: Decode the whole slice and return its error; only then take the
\* lock and apply the items.
LoadItems(c, stream, t) ==
    IF gobDecodeFails(stream)
    THEN [cache |-> c, err |-> TRUE]
    ELSE [cache |-> LoadItemsLoop(c, gobDecode(stream), t), err |-> FALSE]

\* ----------------------------------------------------------------- state

Cache ==
    [list |-> list, table |-> table, size |-> size, capacity |-> capacity,
     panic |-> panicked]

Install(c) ==
    /\ list' = c.list
    /\ table' = c.table
    /\ size' = c.size
    /\ capacity' = c.capacity
    /\ panicked' = c.panic

\* time.Now(): the clock does not run backwards.
NowSet == {clock, IF clock < MaxClock THEN clock + 1 ELSE clock}

Call(op, ok, ret) ==
    [op |-> op, ok |-> ok, ret |-> ret]

\* The history of touches: key becomes the latest.
Touch(o, key) == <<key>> \o SelectSeq(o, LAMBDA x : x # key)

\* The history keeps the keys of ks only.
Keep(o, ks) == SelectSeq(o, LAMBDA x : x \in ks)

NoCache == [list |-> <<>>, table |-> {}, size |-> 0, capacity |-> 0, panic |-> TRUE]

\* No call runs while a load holds the lock, nor after a panic.
Idle == loadLeft = 0 /\ ~panicked

NoThread == "none"

\* The runs of one caller: the mutex is never contended and the calls are in
\* program order.
OneThread ==
    /\ mu = NoThread
    /\ thr = <<>>
    /\ lin = NoCache

Sequential == UNCHANGED <<mu, thr, lin>>

Init ==
    /\ capacity \in 0 .. MaxCapacity
    /\ list = <<>>
    /\ table = {}
    /\ size = 0
    /\ panicked = FALSE
    /\ clock = 1
    /\ loadLeft = 0
    /\ last = Call("NewLRUCache", TRUE, NoValue)
    /\ order = <<>>
    /\ evicted = {}
    /\ restored = NoCache
    /\ OneThread

DoGet(key) ==
    /\ Idle
    /\ \E t \in NowSet :
        LET r == Get(Cache, key, t)
        IN  /\ Install(r.cache)
            /\ clock' = IF r.ok THEN t ELSE clock
            /\ last' = Call("Get", r.ok, r.v)
            /\ order' = Keep(IF r.ok THEN Touch(order, key) ELSE order, table)
    /\ evicted' = {}
    /\ restored' = NoCache
    /\ UNCHANGED loadLeft
    /\ Sequential

DoSet(key, value) ==
    /\ Idle
    /\ \E t \in NowSet :
        LET d == Set(Cache, key, value, t)
        IN  /\ Install(d)
            /\ clock' = t
            /\ evicted' = (table \cup {key}) \ d.table
    /\ last' = Call("Set", key \in table, NoValue)
    /\ order' = Keep(Touch(order, key), table \cup {key})
    /\ restored' = NoCache
    /\ UNCHANGED loadLeft
    /\ Sequential

DoSetIfAbsent(key, value) ==
    /\ Idle
    /\ \E t \in NowSet :
        LET d == SetIfAbsent(Cache, key, value, t)
        IN  /\ Install(d)
            /\ clock' = IF key \in table THEN clock ELSE t
            /\ evicted' = (table \cup {key}) \ d.table
    /\ last' = Call("SetIfAbsent", key \in table, NoValue)
    /\ order' = Keep(IF key \in table THEN order ELSE Touch(order, key),
                      table \cup {key})
    /\ restored' = NoCache
    /\ UNCHANGED loadLeft
    /\ Sequential

DoDelete(key) ==
    /\ Idle
    /\ LET r == Delete(Cache, key)
       IN  /\ Install(r.cache)
           /\ last' = Call("Delete", r.ok, NoValue)
    /\ order' = Keep(order, table \ {key})
    /\ evicted' = {}
    /\ restored' = NoCache
    /\ UNCHANGED <<clock, loadLeft>>
    /\ Sequential

DoClear ==
    /\ Idle
    /\ Install(Clear(Cache))
    /\ last' = Call("Clear", TRUE, NoValue)
    /\ order' = <<>>
    /\ evicted' = {}
    /\ restored' = NoCache
    /\ UNCHANGED <<clock, loadLeft>>
    /\ Sequential

DoSetCapacity(cap) ==
    /\ Idle
    /\ LET d == SetCapacity(Cache, cap)
       IN  /\ Install(d)
           /\ evicted' = table \ d.table
    /\ last' = Call("SetCapacity", TRUE, NoValue)
    /\ order' = Keep(order, table)
    /\ restored' = NoCache
    /\ UNCHANGED <<clock, loadLeft>>
    /\ Sequential

DoStats ==
    /\ Idle
    /\ last' = Call("Stats", TRUE, Stats(Cache))
    /\ order' = Keep(order, table)
    /\ evicted' = {}
    /\ restored' = NoCache
    /\ UNCHANGED <<list, table, size, capacity, panicked, clock, loadLeft>>
    /\ Sequential

\* LoadItems: the stream decoded to n items, the lock taken.
DoLoadItems(n) ==
    /\ Idle
    /\ loadLeft' = n
    /\ last' = Call("LoadItems", TRUE, NoValue)
    /\ order' = Keep(order, table)
    /\ evicted' = {}
    /\ restored' = NoCache
    /\ UNCHANGED <<list, table, size, capacity, panicked, clock>>
    /\ Sequential

\* One turn of the loop of LoadItems; the lock is released after the last.
LoadNext(key, value) ==
    /\ loadLeft > 0
    /\ ~panicked
    /\ \E t \in NowSet :
        LET d == LoadItem(Cache, [Key |-> key, Value |-> value], t)
        IN  /\ Install(d)
            /\ clock' = t
            /\ evicted' = (evicted \cup table \cup {key}) \ d.table
    /\ loadLeft' = loadLeft - 1
    /\ last' = Call("LoadItems", key \in table, value)
    /\ order' = Keep(Touch(order, key), evicted \cup table \cup {key})
    /\ UNCHANGED restored
    /\ Sequential

\* LoadItems of a stream of two items that lost the last field of the second:
\* Decode fails.
DoLoadItemsTruncated(key, value) ==
    /\ Idle
    /\ LET item == [Key |-> key, Value |-> value]
           r == LoadItems(Cache, Truncated(gobEncode(<<item, item>>)), clock)
       IN  /\ Install(r.cache)
           /\ last' = Call(IF r.err THEN "LoadItemsError" ELSE "LoadItems",
                           key \in table, NoValue)
    /\ order' = Keep(order, table)
    /\ evicted' = {}
    /\ restored' = NoCache
    /\ UNCHANGED <<clock, loadLeft>>
    /\ Sequential

\* SaveItems to a stream, then LoadItems of it into NewLRUCache(capacity).
DoSaveLoad ==
    /\ Idle
    /\ \E t \in NowSet :
        /\ restored' = LoadItemsLoop(NewLRUCache(capacity),
                                     gobDecode(gobEncode(Items(Cache))), t)
        /\ clock' = t
    /\ last' = Call("SaveLoad", TRUE, NoValue)
    /\ order' = Keep(order, table)
    /\ evicted' = {}
    /\ UNCHANGED <<list, table, size, capacity, panicked, loadLeft>>
    /\ Sequential

Next ==
    \/ \E key \in Keys : DoGet(key)
    \/ \E key \in Keys, value \in Values : DoSet(key, value)
    \/ \E key \in Keys, value \in Values : DoSetIfAbsent(key, value)
    \/ \E key \in Keys : DoDelete(key)
    \/ DoClear
    \/ \E cap \in 0 .. MaxCapacity : DoSetCapacity(cap)
    \/ DoStats
    \/ \E n \in 0 .. MaxItems : DoLoadItems(n)
    \/ \E key \in Keys, value \in Values : LoadNext(key, value)
    \/ \E key \in Keys, value \in UnitValues : DoLoadItemsTruncated(key, value)
    \/ DoSaveLoad

Spec == Init /\ [][Next]_vars

\* ------------------------------------------------- the eleven-insert run

ScenarioKeys == <<"A", "B", "C", "D", "E", "F", "G", "H", "I", "J", "K">>

\* The keys inserted so far are the keys touched so far.
Inserted == Len(order)

ScenarioInit ==
    /\ capacity = 10
    /\ list = <<>>
    /\ table = {}
    /\ size = 0
    /\ panicked = FALSE
    /\ clock = 1
    /\ loadLeft = 0
    /\ last = Call("NewLRUCache", TRUE, NoValue)
    /\ order = <<>>
    /\ evicted = {}
    /\ restored = NoCache
    /\ OneThread

ScenarioSet ==
    /\ Inserted < Len(ScenarioKeys)
    /\ \E value \in UnitValues : DoSet(ScenarioKeys[Inserted + 1], value)

ScenarioSetIfAbsent ==
    /\ Inserted < Len(ScenarioKeys)
    /\ \E value \in UnitValues : DoSetIfAbsent(ScenarioKeys[Inserted + 1], value)

ScenarioNext == ScenarioSet \/ ScenarioSetIfAbsent

ScenarioSpec == ScenarioInit /\ [][ScenarioNext]_vars

\* ------------------------------------------------- threads and the mutex

Threads == {"t1", "t2"}

\* The keys the threads contend for, and the values they store: one of no size
\* and one of the largest.
ConcKeys == {"A", "B"}
ConcValues == {value \in Values : value[1] = "x" /\ Size(value) \in {0, MaxValSize}}

Methods ==
    {"Get", "Set", "SetIfAbsent", "Delete", "Clear", "SetCapacity", "Stats",
     "Keys", "Items", "LoadItems", "StatsJSON", "SaveItems", "SaveItemsToFile",
     "LoadItemsFromFile"}

\* The method of the cache that a method runs: its own body, or the one it calls.
Inner(op) ==
    CASE op = "StatsJSON" -> "Stats"
      [] op \in {"SaveItems", "SaveItemsToFile"} -> "Items"
      [] op = "LoadItemsFromFile" -> "LoadItems"
      [] OTHER -> op

LocksExceptKeys(o) == o # "Keys"

\* Every method body begins with lru.mu.Lock(); defer lru.mu.Unlock().
Locks(o) == TRUE

DeferredExceptDelete(o) == o # "Delete"

\* defer lru.mu.Unlock() follows every Lock(): it runs on every return path.
Deferred(o) == TRUE

NoResult == <<>>

NoCall ==
    [pc |-> "idle", op |-> "none", key |-> "none", value |-> NoValue, n |-> 0,
     val |-> NoResult, want |-> NoResult]

NoArgs == [key |-> "none", value |-> NoValue, n |-> 0]

\* The arguments of a call; n is the capacity of SetCapacity and the number of
\* items of the stream of LoadItems.
Args(o) ==
    CASE o \in {"Get", "Delete"} ->
            {[NoArgs EXCEPT !.key = key] : key \in ConcKeys}
      [] o \in {"Set", "SetIfAbsent"} ->
            {[NoArgs EXCEPT !.key = kv[1], !.value = kv[2]] :
                kv \in ConcKeys \X ConcValues}
      [] o = "SetCapacity" -> {[NoArgs EXCEPT !.n = cap] : cap \in 0 .. MaxCapacity}
      [] o = "LoadItems" -> {[NoArgs EXCEPT !.n = n] : n \in 0 .. MaxItems}
      [] OTHER -> {NoArgs}

\* A call run alone: the cache after it and what it returns. The items of a load
\* are applied turn by turn.
SeqOp(c, o, a, t) ==
    CASE o = "Get" ->
            LET r == Get(c, a.key, t)
            IN  [cache |-> r.cache, ret |-> [v |-> r.v, ok |-> r.ok]]
      [] o = "Set" -> [cache |-> Set(c, a.key, a.value, t), ret |-> NoResult]
      [] o = "SetIfAbsent" ->
            [cache |-> SetIfAbsent(c, a.key, a.value, t), ret |-> NoResult]
      [] o = "Delete" ->
            LET r == Delete(c, a.key)
            IN  [cache |-> r.cache, ret |-> r.ok]
      [] o = "Clear" -> [cache |-> Clear(c), ret |-> NoResult]
      [] o = "SetCapacity" -> [cache |-> SetCapacity(c, a.n), ret |-> NoResult]
      [] o = "Stats" -> [cache |-> c, ret |-> Stats(c)]
      [] o = "Keys" -> [cache |-> c, ret |-> KeysOf(c)]
      [] o = "Items" -> [cache |-> c, ret |-> Items(c)]
      [] OTHER -> [cache |-> c, ret |-> NoResult]

\* The call touches its key.
Touches(c, o, key) ==
    CASE o = "Get" -> key \in c.table
      [] o = "Set" -> TRUE
      [] o = "SetIfAbsent" -> key \notin c.table
      [] OTHER -> FALSE

\* The statements of a method body between Lock() and the call of checkCapacity
\* or the return: the cache after them, the value to return, and whether
\* checkCapacity is called.
BodyStep(c, o, a, t) ==
    CASE o = "Get" ->
            IF a.key \in c.table
            THEN [cache |-> moveToFront(c, a.key, t),
                  val |-> [v |-> c.list[IndexOf(c.list, a.key)].value, ok |-> TRUE],
                  pc |-> "unlock"]
            ELSE [cache |-> c, val |-> [v |-> NoValue, ok |-> FALSE],
                  pc |-> "unlock"]
      [] o = "Set" ->
            IF a.key \in c.table
            THEN [cache |-> moveToFront(c, a.key, t), val |-> NoResult,
                  pc |-> "unlock"]
            ELSE [cache |-> pushNew(c, a.key, a.value, t), val |-> NoResult,
                  pc |-> "evict"]
      [] o = "SetIfAbsent" ->
            IF a.key \notin c.table
            THEN [cache |-> pushNew(c, a.key, a.value, t), val |-> NoResult,
                  pc |-> "evict"]
            ELSE [cache |-> c, val |-> NoResult, pc |-> "unlock"]
      [] o = "Delete" ->
            LET r == Delete(c, a.key)
            IN  [cache |-> r.cache, val |-> r.ok, pc |-> "unlock"]
      [] o = "Clear" -> [cache |-> Clear(c), val |-> NoResult, pc |-> "unlock"]
      [] o = "SetCapacity" ->
            [cache |-> [c EXCEPT !.capacity = a.n], val |-> NoResult,
             pc |-> "evict"]
      [] o = "Stats" -> [cache |-> c, val |-> Stats(c), pc |-> "unlock"]
      [] o = "Keys" -> [cache |-> c, val |-> KeysOf(c), pc |-> "unlock"]
      [] o = "Items" -> [cache |-> c, val |-> Items(c), pc |-> "unlock"]
      [] OTHER -> [cache |-> c, val |-> NoResult, pc |-> "unlock"]

\* The body of the loop of LoadItems up to the call of checkCapacity.
LoadStep(c, item, t) ==
    IF item.Key \in c.table
    THEN replaceValue(c, item.Key, item.Value, t)
    ELSE pushNew(c, item.Key, item.Value, t)

\* The threads start with one cache just made; the clock stands still.
ConcInit ==
    /\ capacity \in 0 .. MaxCapacity
    /\ list = <<>>
    /\ table = {}
    /\ size = 0
    /\ panicked = FALSE
    /\ clock = 1
    /\ loadLeft = 0
    /\ last = Call("NewLRUCache", TRUE, NoValue)
    /\ order = <<>>
    /\ evicted = {}
    /\ restored = NoCache
    /\ mu = NoThread
    /\ thr = [th \in Threads |-> NoCall]
    /\ lin = NewLRUCache(capacity)

\* A thread calls a method of the cache; which one shows when the method takes
\* the mutex or returns without it.
CallOp(th) ==
    /\ thr[th].pc = "idle"
    /\ ~panicked
    /\ thr' = [thr EXCEPT ![th] = [NoCall EXCEPT !.pc = "lock"]]
    /\ UNCHANGED <<list, table, size, capacity, panicked, clock, loadLeft, last,
                   order, evicted, restored, mu, lin>>

\* os.Create, os.Open or Decode gives an error: SaveItemsToFile, LoadItems or
\* LoadItemsFromFile returns it without a call of Lock().
EarlyReturn(th) ==
    /\ thr[th].pc = "lock"
    /\ thr' = [thr EXCEPT ![th] = NoCall]
    /\ UNCHANGED <<list, table, size, capacity, panicked, clock, loadLeft, last,
                   order, evicted, restored, mu, lin>>

\* lru.mu.Lock() returns: the thread has the mutex, and the call takes its place
\* in the sequential run.
Lock(th, op) ==
    LET me == thr[th]
        o == Inner(op)
    IN  /\ me.pc = "lock"
        /\ Locks(o) => mu = NoThread
        /\ mu' = IF Locks(o) THEN th ELSE mu
        /\ \E a \in Args(o) :
              LET r == SeqOp(lin, o, a, clock)
              IN  /\ lin' = r.cache
                  /\ order' = Keep(IF Touches(lin, o, a.key)
                                   THEN Touch(order, a.key) ELSE order,
                                   r.cache.table)
                  /\ thr' = [thr EXCEPT ![th] =
                                [me EXCEPT !.pc = "body", !.op = op,
                                           !.key = a.key, !.value = a.value,
                                           !.n = a.n, !.want = r.ret]]
        /\ UNCHANGED <<list, table, size, capacity, panicked, clock, loadLeft,
                       last, evicted, restored>>

\* The body of a method other than LoadItems, or of LoadItems with no item left.
Body(th) ==
    LET me == thr[th]
        o == Inner(me.op)
    IN  /\ me.pc = "body"
        /\ o = "LoadItems" => me.n = 0
        /\ LET r == BodyStep(Cache, o, me, clock)
           IN  /\ Install(r.cache)
               /\ thr' = [thr EXCEPT ![th] = [me EXCEPT !.pc = r.pc, !.val = r.val]]
        /\ UNCHANGED <<clock, loadLeft, last, order, evicted, restored, mu, lin>>

\* One turn of the loop of LoadItems, up to checkCapacity.
LoadBody(th, key, value) ==
    LET me == thr[th]
        item == [Key |-> key, Value |-> value]
    IN  /\ me.pc = "body"
        /\ Inner(me.op) = "LoadItems"
        /\ me.n > 0
        /\ Install(LoadStep(Cache, item, clock))
        /\ lin' = LoadItem(lin, item, clock)
        /\ order' = Keep(Touch(order, key), lin'.table)
        /\ thr' = [thr EXCEPT ![th] = [me EXCEPT !.pc = "evict", !.n = @ - 1]]
        /\ UNCHANGED <<clock, loadLeft, last, evicted, restored, mu>>

\* checkCapacity: the test of the loop and, when it holds, one turn.
Evict(th) ==
    LET me == thr[th]
    IN  /\ me.pc = "evict"
        /\ IF size > capacity
           THEN /\ Install(evictBack(Cache))
                /\ thr' = [thr EXCEPT ![th] =
                              [me EXCEPT !.pc = IF list = <<>> THEN "unlock"
                                                ELSE "evict"]]
           ELSE /\ thr' = [thr EXCEPT ![th] =
                              [me EXCEPT !.pc = IF Inner(me.op) = "LoadItems"
                                                THEN "body" ELSE "unlock"]]
                /\ UNCHANGED <<list, table, size, capacity, panicked>>
        /\ UNCHANGED <<clock, loadLeft, last, order, evicted, restored, mu, lin>>

\* The slice of Keys() or Items() stays with the caller.
Keeps(op) == Inner(op) \in {"Keys", "Items"}

\* The deferred lru.mu.Unlock() and the return of the method; SaveItems has the
\* snapshot and goes on to encode it.
Unlock(th) ==
    LET me == thr[th]
    IN  /\ me.pc = "unlock"
        /\ mu' = IF Locks(Inner(me.op)) /\ Deferred(Inner(me.op))
                 THEN NoThread ELSE mu
        /\ thr' = [thr EXCEPT ![th] =
                      IF me.op \in {"SaveItems", "SaveItemsToFile"}
                      THEN [me EXCEPT !.pc = "encode"]
                      ELSE IF Keeps(me.op)
                      THEN [me EXCEPT !.pc = "ret"]
                      ELSE NoCall]
        /\ UNCHANGED <<list, table, size, capacity, panicked, clock, loadLeft,
                       last, order, evicted, restored, lin>>

\* SaveItems writes the stream, outside the lock.
Encode(th) ==
    LET me == thr[th]
    IN  /\ me.pc = "encode"
        /\ thr' = [thr EXCEPT ![th] =
                      [me EXCEPT !.pc = "ret",
                                 !.val = SaveItemsEncode(me.val, Cache)]]
        /\ UNCHANGED <<list, table, size, capacity, panicked, clock, loadLeft,
                       last, order, evicted, restored, mu, lin>>

\* The caller lets go of the slice or the stream it has got.
Return(th) ==
    /\ thr[th].pc = "ret"
    /\ thr' = [thr EXCEPT ![th] = NoCall]
    /\ UNCHANGED <<list, table, size, capacity, panicked, clock, loadLeft, last,
                   order, evicted, restored, mu, lin>>

ConcNext ==
    \/ \E th \in Threads : CallOp(th)
    \/ \E th \in Threads : EarlyReturn(th)
    \/ \E th \in Threads, op \in Methods : Lock(th, op)
    \/ \E th \in Threads : Body(th)
    \/ \E th \in Threads, key \in ConcKeys, value \in ConcValues : LoadBody(th, key, value)
    \/ \E th \in Threads : Evict(th)
    \/ \E th \in Threads : Unlock(th)
    \/ \E th \in Threads : Encode(th)
    \/ \E th \in Threads : Return(th)

ConcSpec == ConcInit /\ [][ConcNext]_vars

\* The runs in which the threads contend for the one key "A".
OneKey(th) == thr'[th].key # "B"

OneKeyNext ==
    \/ \E th \in Threads : CallOp(th)
    \/ \E th \in Threads : EarlyReturn(th)
    \/ \E th \in Threads, op \in Methods : Lock(th, op) /\ OneKey(th)
    \/ \E th \in Threads : Body(th)
    \/ \E th \in Threads, value \in ConcValues : LoadBody(th, "A", value)
    \/ \E th \in Threads : Evict(th)
    \/ \E th \in Threads : Unlock(th)
    \/ \E th \in Threads : Encode(th)
    \/ \E th \in Threads : Return(th)

\* A thread that can take a step of its method takes it; a thread that waits
\* for the mutex gets it when the mutex keeps being released (sync.Mutex hands
\* the lock to a waiter that has starved). No thread has to call a method, and
\* no call has to fail before Lock().
OneKeyFairSpec ==
    /\ ConcInit
    /\ [][OneKeyNext]_vars
    /\ \A th \in Threads :
          /\ WF_vars(Body(th) \/ Evict(th) \/ Unlock(th) \/ Encode(th) \/ Return(th)
                     \/ \E value \in ConcValues : LoadBody(th, "A", value))
          /\ SF_vars(\E op \in Methods : Lock(th, op) /\ OneKey(th))

\* ---------------------------------------------------------------- claims

SumSizes(l) ==
    LET RECURSIVE sum(_)
        sum(i) == IF i = 0 THEN 0 ELSE l[i].size + sum(i - 1)
    IN  sum(Len(l))

ListKeys(l) == {l[i].key : i \in 1 .. Len(l)}

\* The place of key in the history of touches; past the end when it is not there.
Place(o, key) ==
    IF \E i \in 1 .. Len(o) : o[i] = key
    THEN CHOOSE i \in 1 .. Len(o) : o[i] = key
    ELSE Len(o) + 1

\* The list after the entry of key went to the front with the clock's reading.
Promoted(l, key, t) ==
    LET i == IndexOf(l, key)
    IN  <<[l[i] EXCEPT !.timeAccessed = t]>> \o ListRemove(l, i)

Pairs(c) == {<<c.list[i].key, c.list[i].value>> : i \in 1 .. Len(c.list)}

\* C1: in every state the size is the sum of the cached sizes of the entries, the
\* keys of the index are the keys of the list, and no key is twice in the list.
C1_Accounting ==
    /\ size = SumSizes(list)
    /\ table = ListKeys(list)
    /\ Cardinality(table) = Len(list)

C1_Witness ==
    /\ Len(list) = 2
    /\ size = capacity
    /\ size = SumSizes(list)
    /\ list[2].size > 0
    /\ evicted # {}
    /\ last.op = "LoadItems"
    /\ last.ok

\* C2: after Set, SetIfAbsent, SetCapacity or a load, the size is within the
\* capacity or the list holds exactly one entry.
C2_WithinCapacityOrSingle ==
    last.op \in {"Set", "SetIfAbsent", "SetCapacity", "LoadItems"}
        => (size <= capacity \/ Len(list) = 1)

C2_Witness ==
    /\ last.op = "SetCapacity"
    /\ Cardinality(evicted) = 2
    /\ Len(list) = 1
    /\ size = capacity

\* The step's call touched key: key is the latest in the history after it.
Touched(key) == order' # <<>> /\ order'[1] = key

\* An insert of a new key whose value alone is larger than the capacity.
OversizedInsert(key, value) ==
    /\ key \notin table
    /\ Size(value) > capacity
    /\ last'.op \in {"Set", "SetIfAbsent", "LoadItems"}
    /\ Touched(key)
    /\ \/ last'.op = "Set" /\ DoSet(key, value)
       \/ last'.op = "SetIfAbsent" /\ DoSetIfAbsent(key, value)
       \/ last'.op = "LoadItems" /\ last'.ret = value /\ LoadNext(key, value)

\* C3, as claimed: an oversized insert ends with that one entry alone in the
\* cache, the size above the capacity.
C3_OversizedStays ==
    [][\A key \in Keys, value \in Values :
          OversizedInsert(key, value)
              => /\ Len(list') = 1
                 /\ list'[1].key = key
                 /\ size' > capacity']_vars

\* C3, amended: an oversized insert evicts every entry, the new one included,
\* and ends with the cache empty and the size 0.
C3_OversizedEvictsAll ==
    [][\A key \in Keys, value \in Values :
          OversizedInsert(key, value)
              => /\ list' = <<>>
                 /\ table' = {}
                 /\ size' = 0
                 /\ table \cup {key} \subseteq evicted']_vars

C3_Witness ==
    /\ last.op = "Set"
    /\ ~last.ok
    /\ order[1] \in evicted
    /\ Cardinality(evicted) = 3
    /\ list = <<>>
    /\ size = 0
    /\ capacity = 1

\* C4: every key in the cache was inserted or touched later than every key the
\* last call evicted.
C4_EvictsLeastRecent ==
    \A s \in table, e \in evicted : Place(order, s) < Place(order, e)

\* A, B, Get A, then C with room for two: B is evicted and A is kept.
C4_Witness ==
    /\ order = <<"C", "A", "B">>
    /\ KeysOf(Cache) = <<"C", "A">>
    /\ evicted = {"B"}
    /\ list[1].size = 1
    /\ list[2].size = 1
    /\ capacity = 2
    /\ last.op = "Set"

\* C5, as claimed: after A..J the count and the size are 10; after K, A is gone,
\* the count and the size are 10 and Keys() ends with K.
C5_ScenarioKeysEndWithK ==
    /\ Inserted = 10 => Len(list) = 10 /\ size = 10
    /\ Inserted = 11 =>
          /\ "A" \notin table
          /\ Len(list) = 10
          /\ size = 10
          /\ KeysOf(Cache)[Len(list)] = "K"

\* C5, amended: after A..J the count and the size are 10; after K, A is gone,
\* the count and the size are 10 and Keys() begins with K and ends with B.
C5_ScenarioKeysBeginWithK ==
    /\ Inserted = 10 => Len(list) = 10 /\ size = 10
    /\ Inserted = 11 =>
          /\ "A" \notin table
          /\ Len(list) = 10
          /\ size = 10
          /\ KeysOf(Cache) = <<"K", "J", "I", "H", "G", "F", "E", "D", "C", "B">>

C5_Witness ==
    /\ Inserted = 11
    /\ evicted = {"A"}
    /\ order[1] = "K"
    /\ Len(list) = 10

\* C6: Set on a present key moves its entry to the front with the clock's
\* reading and changes nothing else: no value, no size, no other entry's place,
\* no eviction. Set on an absent key is what creates an entry.
C6_SetTouchesOnly ==
    [][\A key \in Keys :
          (last'.op = "Set" /\ Touched(key)) =>
              IF key \in table
              THEN /\ last'.ok
                   /\ list' = Promoted(list, key, clock')
                   /\ table' = table
                   /\ size' = size
                   /\ capacity' = capacity
                   /\ evicted' = {}
              ELSE /\ ~last'.ok
                   /\ key \in table' =>
                         /\ list'[1].key = key
                         /\ list'[1].value \in Values
                         /\ list'[1].size = Size(list'[1].value)
                         /\ list'[1].timeAccessed = clock'
                         /\ SubSeq(list', 2, Len(list'))
                                = SubSeq(list, 1, Len(list') - 1)]_vars

C6_Witness ==
    /\ last.op = "Set"
    /\ last.ok
    /\ Len(list) = 3
    /\ list[1].key = order[1]
    /\ list[1].timeAccessed > list[2].timeAccessed
    /\ list[1].value = <<"y", 1>>

\* C7: SetIfAbsent on a present key changes nothing: not the entries, their
\* order or their timestamps, not the size, not the capacity.
C7_SetIfAbsentPresentNoop ==
    [][(last'.op = "SetIfAbsent" /\ last'.ok)
          => UNCHANGED <<list, table, size, capacity, clock>>]_vars

C7_Witness ==
    /\ last.op = "SetIfAbsent"
    /\ last.ok
    /\ Len(list) = 3
    /\ KeysOf(Cache) = order
    /\ list[1].timeAccessed < clock

\* C8: Get and Delete of an absent key report the miss and change nothing.
C8_MissNoEffect ==
    [][\A key \in Keys :
          (last'.op \in {"Get", "Delete"} /\ key \notin table
              /\ (DoGet(key) \/ DoDelete(key)))
              => /\ ~last'.ok
                 /\ last'.ret = NoValue
                 /\ UNCHANGED <<list, table, size, capacity, clock>>
                 /\ Stats(Cache)' = Stats(Cache)]_vars

C8_Witness ==
    /\ last.op = "Delete"
    /\ ~last.ok
    /\ Len(list) = 2

\* C9: Get of a present key returns the stored value and moves the entry to the
\* front with the clock's reading; the keys, the values, the size and the order
\* of the other entries stay.
C9_GetHitPromotes ==
    [][\A key \in Keys :
          (last'.op = "Get" /\ Touched(key) /\ key \in table /\ DoGet(key))
              => /\ last'.ok
                 /\ last'.ret = list[IndexOf(list, key)].value
                 /\ list' = Promoted(list, key, clock')
                 /\ table' = table
                 /\ size' = size
                 /\ capacity' = capacity]_vars

C9_Witness ==
    /\ last.op = "Get"
    /\ last.ok
    /\ Len(list) = 3
    /\ list[1].key = order[1]
    /\ last.ret = <<"y", 1>>
    /\ list[1].timeAccessed > list[2].timeAccessed

\* C10: after a save and a load of the stream into a new cache of the same
\* capacity, the new cache holds the same (key, value) pairs and the same size.
C10_RoundTrip ==
    last.op = "SaveLoad"
        => /\ ~restored.panic
           /\ Pairs(restored) = Pairs(Cache)
           /\ Cardinality(restored.table) = Len(list)
           /\ Len(restored.list) = Len(list)
           /\ restored.size = size
           /\ restored.capacity = capacity

C10_Witness ==
    /\ last.op = "SaveLoad"
    /\ Len(list) = 3
    /\ size = capacity
    /\ Len(restored.list) = 3

\* One turn of the loop of LoadItems has applied a pair of key.
LoadTurn(key) ==
    /\ last'.op = "LoadItems"
    /\ loadLeft' = loadLeft - 1
    /\ Touched(key)

\* C11: a turn of the load loop for a present key replaces the value, recomputes
\* the cached size, changes the total by the new size minus the old one without
\* wrapping, puts the entry at the front with the clock's reading and then
\* evicts from the back while the total is above the capacity; for an absent
\* key it does the same with a new entry.
C11_LoadUpdatesInPlace ==
    [][\A key \in Keys :
          LoadTurn(key) =>
              LET i == IndexOf(list, key)
                  value == last'.ret
                  old == IF i = 0 THEN 0 ELSE list[i].size
                  loaded == [key |-> key, value |-> value, size |-> Size(value),
                             timeAccessed |-> clock']
                  full == <<loaded>> \o ListRemove(list, i)
                  kept == Len(list')
              IN  /\ last'.ok = (key \in table)
                  /\ value \in Values
                  /\ kept <= Len(full)
                  /\ list' = SubSeq(full, 1, kept)
                  /\ size' = size + Size(value) - old
                                - SumSizes(SubSeq(full, kept + 1, Len(full)))
                  /\ size' <= capacity'
                  /\ kept < Len(full) => size' + full[kept + 1].size > capacity'
                  /\ capacity' = capacity]_vars

\* A load grew a present entry and the entry behind it was evicted for it.
C11_Witness ==
    /\ last.op = "LoadItems"
    /\ last.ok
    /\ evicted # {}
    /\ Len(list) = 1
    /\ list[1].key = order[1]
    /\ list[1].size = 2
    /\ size = 2

\* C12, as claimed: a load that fails on a truncated stream has applied the
\* items that came before the error: the first item of the stream, when it fits
\* the capacity, is in the cache with the loaded value.
C12_FailedLoadAppliesPrefix ==
    [][\A key \in Keys, value \in UnitValues :
          (last'.op = "LoadItemsError" /\ Size(value) <= capacity
              /\ DoLoadItemsTruncated(key, value))
              => /\ key \in table'
                 /\ list'[IndexOf(list', key)].value = value]_vars

\* C12, amended: a load that fails with a decoding error has applied nothing:
\* the entries, their order and timestamps, the size and the capacity are those
\* before the call, and the accounting of C1 holds.
C12_FailedLoadAppliesNothing ==
    [][last'.op = "LoadItemsError"
          => /\ UNCHANGED <<list, table, size, capacity, panicked, clock>>
             /\ size' = SumSizes(list')
             /\ table' = ListKeys(list')]_vars

C12_Witness ==
    /\ last.op = "LoadItemsError"
    /\ ~last.ok
    /\ Len(list) = 2
    /\ size < capacity

\* C16: in every state the last-access times do not increase from the front of
\* the list to the back; what Stats() returned is the count, the size and the
\* capacity of that state and, as the oldest access, the least last-access time
\* of the entries, or the zero time when there is none.
C16_StatsOldestIsMinimum ==
    /\ \A i \in 1 .. Len(list) - 1 :
          list[i].timeAccessed >= list[i + 1].timeAccessed
    /\ last.op = "Stats" =>
          /\ last.ret.length = Len(list)
          /\ last.ret.size = SumSizes(list)
          /\ last.ret.capacity = capacity
          /\ list = <<>> => last.ret.oldest = ZeroTime
          /\ \A i \in 1 .. Len(list) : last.ret.oldest <= list[i].timeAccessed
          /\ list # <<>> =>
                \E i \in 1 .. Len(list) : last.ret.oldest = list[i].timeAccessed

C16_Witness ==
    /\ last.op = "Stats"
    /\ Len(list) = 3
    /\ list[1].timeAccessed > list[3].timeAccessed
    /\ last.ret.oldest = list[3].timeAccessed
    /\ last.ret.oldest > ZeroTime

Reverse(q) == [i \in 1 .. Len(q) |-> q[Len(q) + 1 - i]]

\* C20: after a save and a load of the stream into a new cache of the same
\* capacity, Keys() of the new cache is Keys() of the saved cache reversed: the
\* front key of the saved cache is the back key of the new one, the next to be
\* evicted.
C20_RoundTripReversesKeys ==
    last.op = "SaveLoad"
        => /\ KeysOf(restored) = Reverse(KeysOf(Cache))
           /\ list # <<>> =>
                 /\ restored.list[Len(restored.list)].key = list[1].key
                 /\ \A cap \in 0 .. MaxCapacity :
                       LET cut == SetCapacity(restored, cap)
                       IN  cut.list # restored.list => list[1].key \notin cut.table

C20_Witness ==
    /\ last.op = "SaveLoad"
    /\ KeysOf(Cache) = <<"A", "B", "C">>
    /\ KeysOf(restored) = <<"C", "B", "A">>
    /\ list[1].size = 1

\* The thread runs statements of a method body that follow Lock().
InBody(th) == thr[th].pc \in {"body", "evict", "unlock"}

\* C13: a thread is between Lock() and Unlock() of a method only while it holds
\* the mutex; whenever the mutex is free, and whenever a method is about to
\* return, the cache is the cache of the calls run one after the other in the
\* order of their Lock(), and what the method returns is what it returns in
\* that sequential run.
C13_Linearizable ==
    /\ \A th \in Threads : InBody(th) => mu = th
    /\ mu = NoThread => Cache = lin
    /\ \A th \in Threads :
          thr[th].pc = "unlock" =>
              /\ Cache = lin
              /\ thr[th].val = thr[th].want

\* A thread waits for the mutex while a load of the other has put its second
\* item in and has not yet evicted for it.
C13_Witness ==
    /\ thr["t1"].pc = "evict"
    /\ thr["t1"].op = "LoadItems"
    /\ thr["t1"].n = 0
    /\ size > capacity
    /\ Len(list) = 2
    /\ Cache # lin
    /\ mu = "t1"
    /\ thr["t2"].pc = "lock"

Saves == {"SaveItems", "SaveItemsToFile"}

\* C14: while SaveItems encodes, the thread does not hold the mutex and what it
\* encodes is the slice Items() gave at the instant of its Lock(); the stream
\* it has written decodes to that slice, whatever the other thread has done to
\* the cache since.
C14_SaveSnapshot ==
    \A th \in Threads :
        /\ thr[th].pc = "encode" =>
              /\ mu # th
              /\ thr[th].val = thr[th].want
        /\ (thr[th].pc = "ret" /\ thr[th].op \in Saves) =>
              /\ mu # th
              /\ thr[th].val = gobEncode(thr[th].want)
              /\ gobDecode(thr[th].val) = thr[th].want

\* The save has written two items; the other thread cleared the cache while
\* the stream was written and is now in a call of its own.
C14_Witness ==
    /\ thr["t1"].pc = "ret"
    /\ thr["t1"].op = "SaveItems"
    /\ Len(thr["t1"].want) = 2
    /\ gobDecode(thr["t1"].val) # Items(Cache)
    /\ list = <<>>
    /\ mu = "t2"

\* The value of key in the cache c.
ValueOf(c, key) == c.list[IndexOf(c.list, key)].value

NoRepeat(q) == \A i, j \in 1 .. Len(q) : q[i] = q[j] => i = j

\* C15: the keys of the cache front to back are its keys by last insert, Get hit,
\* Set touch or load, latest first, each once; Keys() returns them in that
\* order and Items() returns them in that order with their values; the slice
\* the caller holds stays what it was at the instant of the call.
C15_EnumerateLatestFirst ==
    /\ KeysOf(lin) = order
    /\ NoRepeat(order)
    /\ Len(order) = Cardinality(lin.table)
    /\ \A th \in Threads :
          /\ (thr[th].pc = "unlock" /\ Inner(thr[th].op) = "Keys") =>
                thr[th].val = order
          /\ (thr[th].pc = "unlock" /\ Inner(thr[th].op) = "Items") =>
                thr[th].val = [i \in 1 .. Len(order) |->
                                  [Key |-> order[i], Value |-> ValueOf(lin, order[i])]]
          /\ (thr[th].pc \in {"ret", "encode"} /\ Keeps(thr[th].op)
                /\ thr[th].op \notin Saves) =>
                thr[th].val = thr[th].want

\* The caller holds the keys as they were; a Get of the other thread has since
\* turned the order round.
C15_Witness ==
    /\ thr["t1"].pc = "ret"
    /\ thr["t1"].op = "Keys"
    /\ thr["t1"].val = <<"A", "B">>
    /\ KeysOf(Cache) = <<"B", "A">>
    /\ order = <<"B", "A">>
    /\ thr["t2"].pc = "idle"

\* C17: every turn of the loop of checkCapacity finds an entry and takes exactly
\* one entry off the list, so the turns are no more than the entries; the loop
\* is left only with the size within the capacity.
C17_EvictionTurns ==
    [][\A th \in Threads :
          Evict(th) =>
              IF size > capacity
              THEN /\ list # <<>>
                   /\ Len(list') = Len(list) - 1
                   /\ list' = SubSeq(list, 1, Len(list'))
                   /\ capacity' = capacity
                   /\ thr'[th].pc = "evict"
              ELSE /\ thr'[th].pc # "evict"
                   /\ size' <= capacity'
                   /\ list' = list]_vars

\* The capacity has been set to 0; the entry at the back has size 0, and the
\* turn that takes it off leaves the size as it is.
C17_Witness ==
    /\ thr["t1"].pc = "evict"
    /\ capacity = 0
    /\ size > capacity
    /\ Len(list) = 2
    /\ list[2].size = 0

Completed(th) == thr[th].pc \in {"idle", "ret"}

\* C18: a thread that calls Lock() does not hold the mutex, and neither does a
\* thread whose call has completed; every call that has started, the wait for
\* the mutex included, completes.
C18_EveryCallCompletes ==
    /\ [](\A th \in Threads : (thr[th].pc = "lock" \/ Completed(th)) => mu # th)
    /\ \A th \in Threads : (thr[th].pc # "idle") ~> Completed(th)

\* A thread waits for the mutex while the other evicts under it.
C18_Witness ==
    /\ thr["t1"].pc = "lock"
    /\ mu = "t2"
    /\ thr["t2"].pc = "evict"
    /\ size > capacity

\* C19: no run dereferences the back of an empty list: an empty list has size 0
\* in every state, so the test size > capacity of checkCapacity holds only with
\* an entry in the list.
C19_NeverBackOfEmpty ==
    /\ ~panicked
    /\ ~lin.panic
    /\ list = <<>> => size = 0
    /\ \A th \in Threads :
          (thr[th].pc = "evict" /\ size > capacity) => list # <<>>

\* The loop is entered at capacity 0 with the one entry just added.
C19_Witness ==
    /\ thr["t2"].pc = "evict"
    /\ thr["t2"].op = "SetIfAbsent"
    /\ capacity = 0
    /\ size > capacity
    /\ Len(list) = 1

====
